---- MODULE Spec2Model ----
(***************************************************************************)
(* A model of the ai_overview repository: the query-expansion, retrieval,  *)
(* consolidation and synthesis pipeline of ai_search, in its two source    *)
(* variants, src/ai_overview/ai_overview.py and src/ai_search/ai_search.py.*)
(*                                                                         *)
(* Python values are represented as follows.                               *)
(*   - a query and an overview are TLA+ strings;                           *)
(*   - the value of a search-result field is a sequence of one-character   *)
(*     strings, so that str.strip and the f-string of                      *)
(*     extract_text_and_links are computed, not assumed;                   *)
(*   - a dict is a function from its keys to its values;                   *)
(*   - a list is a sequence;                                               *)
(*   - an Optional value is None (the empty sequence) or Some(v) (<<v>>).  *)
(* The collaborators tools.ask, tools.named_entity_recognition and         *)
(* webkit.search.google are external: each call either raises or returns   *)
(* one of a small set of answers, chosen nondeterministically.             *)
(***************************************************************************)
EXTENDS Naturals, Sequences, FiniteSets, TLC

VARIABLES
    variant,                \* which source file's ai_search runs
    original_query,         \* the argument of ai_search
    pc,                     \* the orchestrator's position (spec section 4.7)
    aborted_at,             \* the position at which ai_search stopped without a result
    ret,                    \* what ai_search did: pending, return, raise
    sanitized_query,        \* local of ai_search
    additional_queries,     \* local of ai_search
    queries,                \* local of ai_search, argument of perform_searches
    loop_index,             \* perform_searches: index of the next query of the loop
    search_results,         \* perform_searches: list_of_search_results
    unique_search_results,  \* local of ai_search
    text,                   \* local of ai_search
    links,                  \* local of ai_search
    overview,               \* local of ai_search (Optional: generate_overview may return None)
    named_entities,         \* local of ai_search (Optional)
    calls,                  \* history: the collaborator calls issued, in order
    search_log,             \* history: per SearchProvider call, the query and its outcome
    expand_response,        \* history: the model's response to the expansion prompt
    overview_outcome,       \* history: the outcome of the model call of generate_overview
    stage_log,              \* history: the stages that returned, each with its input and output
    fn_pc,                  \* function harness: position
    fn_variant,             \* function harness: which source file's function
    fn_in,                  \* function harness: the argument
    fn_out,                 \* function harness: the result of the first application
    fn_out2                 \* function harness: the result of the second application

vars == <<variant, original_query, pc, aborted_at, ret, sanitized_query,
          additional_queries, queries, loop_index, search_results, unique_search_results,
          text, links, overview, named_entities, calls, search_log,
          expand_response, overview_outcome, stage_log,
          fn_pc, fn_variant, fn_in, fn_out, fn_out2>>

pipeline_vars == <<variant, original_query, pc, aborted_at, ret, sanitized_query,
          additional_queries, queries, loop_index, search_results, unique_search_results,
          text, links, overview, named_entities, calls, search_log,
          expand_response, overview_outcome, stage_log>>

fn_vars == <<fn_pc, fn_variant, fn_in, fn_out, fn_out2>>

----------------------------------------------------------------------------
(* Bounds *)

\* The longest list the model answers to the expansion prompt.
MaxExpand == 2

\* The longest argument list of the function harness.
MaxLen == 3

\* The longest list the model answers when expand_query is taken on its own.
MaxAnswer == 4

----------------------------------------------------------------------------
(* Program constants *)

\* The number of additional queries the expansion prompt asks for.
number_of_additional_queries == 3

----------------------------------------------------------------------------
(* Generic helpers *)

None == <<>>
Some(v) == <<v>>
IsNone(o) == o = <<>>
Unwrap(o) == o[1]

Range(s) == {s[k] : k \in 1..Len(s)}

SeqsUpTo(S, n) == UNION {[1..k -> S] : k \in 0..n}

\* Every order in which the elements of a set can be listed: the iteration
\* order of a Python set of str-holding values depends on the hash seed.
Orders(S) == {f \in [1..Cardinality(S) -> S] : \A x \in S : \E k \in DOMAIN f : f[k] = x}

RECURSIVE Join(_, _)
Join(parts, sep) ==
    IF parts = <<>> THEN <<>>
    ELSE IF Len(parts) = 1 THEN parts[1]
    ELSE parts[1] \o sep \o Join(Tail(parts), sep)

RECURSIVE Flatten(_)
Flatten(lists) == IF lists = <<>> THEN <<>> ELSE Head(lists) \o Flatten(Tail(lists))

----------------------------------------------------------------------------
(* Input domains *)

Variants == {"ai_overview", "ai_search"}

\* ai_search("") and ai_search("q0").
OriginalQueries == {"", "q0"}

\* What the model answers to the sanitization prompt.
SanitizeAnswers == {"q0", "q1"}

\* JSON documents: the model's response to the expansion prompt is a text,
\* represented by what json.loads makes of it.
NotJson == [json |-> FALSE]
JStr(s) == [t |-> "str", s |-> s]
JNum == [t |-> "num"]
JList(items) == [t |-> "list", items |-> items]
Json(v) == [json |-> TRUE, val |-> v]

ExpandItems == {JStr("q0"), JStr("q1"), JNum}

ExpandResponses ==
    {NotJson, Json(JStr("not a list"))}
    \cup {Json(JList(items)) : items \in SeqsUpTo(ExpandItems, MaxExpand)}

\* Search-result records returned by the SearchProvider.
r1 == [title |-> <<"A">>, href |-> <<"x">>, snippet |-> <<"s">>, body |-> <<"b">>]
r2 == [title |-> <<"A">>, href |-> <<"x">>, snippet |-> <<"s">>, body |-> <<"c">>]
r3 == [title |-> <<"B">>, href |-> <<"x">>, snippet |-> <<"s">>]

ProviderAnswers == {<<>>, <<r1, r2>>, <<r3>>}

OverviewAnswers == {"", "ov"}

e1 == [category |-> "LOC", type |-> "city", confidence |-> 1, text |-> "Paris"]
EntityAnswers == {<<>>, <<e1>>}

----------------------------------------------------------------------------
(* Orchestrator guard and query list (identical in both source files) *)

\* `not original_query`
Falsy_never(q) == FALSE

Falsy(q) == q = ""

\* `[sanitized_query] + additional_queries`
CombineQueries_original(original, sanitized, additional) == <<original>> \o additional

CombineQueries(original, sanitized, additional) == <<sanitized>> \o additional

----------------------------------------------------------------------------
(* expand_query (identical in both source files) *)

\* json.loads: a value, or JSONDecodeError.
json_loads(response) ==
    IF response.json THEN [exc |-> "", val |-> response.val]
    ELSE [exc |-> "JSONDecodeError", val |-> JNum]

\* isinstance(queries, list) and all(isinstance(q, str) for q in queries)
IsListOfStr(v) ==
    /\ v.t = "list"
    /\ \A k \in DOMAIN v.items : v.items[k].t = "str"

\* A plausible slip: the non-string elements are dropped and anything else
\* is coerced to the empty list, instead of raising.
expand_query_coerce(response) ==
    LET parsed == json_loads(response)
        IsStr(x) == x.t = "str"
    IN  IF parsed.exc # "" \/ parsed.val.t # "list" THEN [exc |-> "", val |-> <<>>]
        ELSE LET strs == SelectSeq(parsed.val.items, IsStr)
             IN  [exc |-> "", val |-> [k \in DOMAIN strs |-> strs[k].s]]

\* A plausible slip: the list is cut to the number of queries asked for.
expand_query_truncate(response) ==
    LET parsed == json_loads(response)
    IN  IF parsed.exc # "" THEN [exc |-> parsed.exc, val |-> <<>>]
        ELSE IF ~IsListOfStr(parsed.val) THEN [exc |-> "ValueError", val |-> <<>>]
        ELSE LET all == [k \in DOMAIN parsed.val.items |-> parsed.val.items[k].s]
                 n == IF Len(all) < number_of_additional_queries THEN Len(all)
                      ELSE number_of_additional_queries
             IN  [exc |-> "", val |-> SubSeq(all, 1, n)]

\* The outcome of expand_query on the model's response: the exception it
\* re-raises ("" when none) and the list it returns.
expand_query(response) ==
    LET parsed == json_loads(response)
    IN  IF parsed.exc # "" THEN [exc |-> parsed.exc, val |-> <<>>]
        ELSE IF ~IsListOfStr(parsed.val) THEN [exc |-> "ValueError", val |-> <<>>]
        ELSE [exc |-> "", val |-> [k \in DOMAIN parsed.val.items |-> parsed.val.items[k].s]]

----------------------------------------------------------------------------
(* perform_searches (identical in both source files) *)

\* list_of_search_results.extend(search_results)
Extend(acc, hits) == acc \o hits

\* A plausible slip: the failure of one query discards what was gathered.
OnSearchError_reset(acc) == <<>>

\* except Exception: log, pass
OnSearchError(acc) == acc

----------------------------------------------------------------------------
(* remove_duplicates_and_unused_keys *)

\* The keys of a search result, in the order sorted() puts them.
KeyOrder == <<"body", "href", "snippet", "title", "y">>

\* The substrings of "body": `k not in ("body")` of ai_search.py tests a
\* key against the string "body", not against a one-element tuple.
SubstringsOfBody == {"", "b", "o", "d", "y", "bo", "od", "dy", "bod", "ody", "body"}

PresentKeys(r) ==
    LET Present(k) == k \in DOMAIN r IN SelectSeq(KeyOrder, Present)

\* A plausible slip: "body" sorts first, so the first sorted item is dropped.
StripBody_first(r) ==
    LET ks == PresentKeys(r)
    IN  [k \in DOMAIN r \ (IF ks = <<>> THEN {} ELSE {ks[1]}) |-> r[k]]

\* {k: v for k, v in r.items() if k != "body"}
StripBody(r) == [k \in {x \in DOMAIN r : x # "body"} |-> r[k]]

\* {k: v for k, v in r.items() if k not in ("body")}
StripBody_substring(r) == [k \in {x \in DOMAIN r : x \notin SubstringsOfBody} |-> r[k]]

\* tuple(sorted(r.items()))
SortedItems(r) ==
    LET ks == PresentKeys(r) IN [n \in DOMAIN ks |-> <<ks[n], r[ks[n]]>>]

\* dict(t)
Dict(t) ==
    [k \in {t[n][1] : n \in DOMAIN t} |-> t[CHOOSE n \in DOMAIN t : t[n][1] = k][2]]

Href(r) == IF "href" \in DOMAIN r THEN r["href"] ELSE <<>>

\* A plausible slip, the one the docstring describes ("duplicate search
\* results with the same link"): one record is kept per link.
UniqueTuples_by_link(rs) ==
    {SortedItems(CHOOSE r \in Range(rs) : Href(r) = h) : h \in {Href(r) : r \in Range(rs)}}

\* set(tuple(sorted(r.items())) for r in search_results)
UniqueTuples(rs) == {SortedItems(rs[n]) : n \in DOMAIN rs}

\* The lists remove_duplicates_and_unused_keys can return on rs: the set
\* is listed in an order the code does not fix.
remove_duplicates_and_unused_keys(rs) ==
    LET stripped == [n \in DOMAIN rs |-> StripBody(rs[n])]
    IN  {[n \in DOMAIN o |-> Dict(o[n])] : o \in Orders(UniqueTuples(stripped))}

\* The same function of ai_search.py.
_remove_duplicates_and_unused_keys(rs) ==
    LET stripped == [n \in DOMAIN rs |-> StripBody_substring(rs[n])]
    IN  {[n \in DOMAIN o |-> Dict(o[n])] : o \in Orders(UniqueTuples(stripped))}

----------------------------------------------------------------------------
(* extract_text_and_links *)

Whitespace == {" ", "\n", "\t"}

RECURSIVE LStrip(_)
LStrip(s) == IF s # <<>> /\ Head(s) \in Whitespace THEN LStrip(Tail(s)) ELSE s

RECURSIVE RStrip(_)
RStrip(s) ==
    IF s # <<>> /\ s[Len(s)] \in Whitespace THEN RStrip(SubSeq(s, 1, Len(s) - 1)) ELSE s

\* str.strip()
Strip(s) == RStrip(LStrip(s))

\* search_result.get(key, "")
Get(r, key) == IF key \in DOMAIN r THEN r[key] ELSE <<>>

\* A plausible slip: the separator of ai_search.py, a space without the colon.
TextLine_space(r) == Strip(Get(r, "title")) \o <<" ">> \o Strip(Get(r, "snippet"))

\* f"{title}: {snippet}" of the stripped fields
TextLine(r) == Strip(Get(r, "title")) \o <<":", " ">> \o Strip(Get(r, "snippet"))

\* "\n".join(texts)
ExtractText(rs) == Join([n \in DOMAIN rs |-> TextLine(rs[n])], <<"\n">>)

\* A plausible slip: the links are returned as gathered, duplicates included.
ExtractLinks_list(rs) == {[n \in DOMAIN rs |-> Strip(Get(rs[n], "href"))]}

\* list(set(links)): the stripped links, in an order the code does not fix
ExtractLinks(rs) == Orders({Strip(Get(rs[n], "href")) : n \in DOMAIN rs})

\* The pairs (text, links) extract_text_and_links can return on rs.
extract_text_and_links(rs) == {<<ExtractText(rs), ls>> : ls \in ExtractLinks(rs)}

\* _extract_text_and_links of ai_search.py: search_result.get(key) is None
\* for a missing key, nothing is stripped, and the line is f"{title} {snippet}".
GetOpt(r, key) == IF key \in DOMAIN r THEN Some(r[key]) ELSE None

\* How an f-string renders a value that is a str or None.
Format(o) == IF IsNone(o) THEN <<"N", "o", "n", "e">> ELSE Unwrap(o)

_TextLine(r) == Format(GetOpt(r, "title")) \o <<" ">> \o Format(GetOpt(r, "snippet"))

_ExtractText(rs) == Join([n \in DOMAIN rs |-> _TextLine(rs[n])], <<"\n">>)

\* list(set(links)), a link being a str or None
_ExtractLinks(rs) == Orders({GetOpt(rs[n], "href") : n \in DOMAIN rs})

_extract_text_and_links(rs) == {<<_ExtractText(rs), ls>> : ls \in _ExtractLinks(rs)}

----------------------------------------------------------------------------
(* generate_overview and recognise_named_entities of ai_overview.py *)

\* The outcome of a collaborator call.
Raised == [raised |-> TRUE]
Answer(a) == [raised |-> FALSE, answer |-> a]

\* A plausible slip: the overview is computed and never returned.
generate_overview_none(outcome) == None

\* try: ... return overview / except: log (the function then returns None)
generate_overview(outcome) ==
    IF outcome.raised THEN None ELSE Some(outcome.answer)

\* recognise_named_entities(text): len(text) is evaluated before the try, so
\* a None text raises TypeError out of the function; inside the try a failing
\* call is logged and the function returns None.
recognise_named_entities(txt, outcome) ==
    IF IsNone(txt) THEN [exc |-> "TypeError", called |-> FALSE, val |-> None]
    ELSE IF outcome.raised THEN [exc |-> "", called |-> TRUE, val |-> None]
    ELSE [exc |-> "", called |-> TRUE, val |-> Some(outcome.answer)]

----------------------------------------------------------------------------
(* ai_search: the orchestrator *)

Pending == [kind |-> "pending", exc |-> "", val |-> None]
Return(v) == [kind |-> "return", exc |-> "", val |-> v]
Raise(e) == [kind |-> "raise", exc |-> e, val |-> None]

Call(op, ok) == [op |-> op, ok |-> ok]

\* A stage that returned: what it was given and what it gave back.
Stage(name, input, output) == [stage |-> name, input |-> input, output |-> output]

\* A plausible slip, the one of ai_search.py: the synthesizer is given the
\* sanitized query alone, not the working query list.
OverviewQueries_sanitized(sanitized, qs) == <<sanitized>>

\* The queries argument of generate_overview(text, queries)
OverviewQueries(sanitized, qs) == qs

Init ==
    /\ variant \in Variants
    /\ original_query \in OriginalQueries
    /\ pc = "Start"
    /\ aborted_at = ""
    /\ ret = Pending
    /\ sanitized_query = ""
    /\ additional_queries = <<>>
    /\ queries = <<>>
    /\ loop_index = 1
    /\ search_results = <<>>
    /\ unique_search_results = <<>>
    /\ text = <<>>
    /\ links = <<>>
    /\ overview = None
    /\ named_entities = None
    /\ calls = <<>>
    /\ search_log = <<>>
    /\ expand_response = NotJson
    /\ overview_outcome = Raised
    /\ stage_log = <<>>
    /\ fn_pc = "off"
    /\ fn_variant = "ai_overview"
    /\ fn_in = <<>>
    /\ fn_out = <<>>
    /\ fn_out2 = <<>>

\* ai_search stops without a result, by an exception leaving it.
Abort(e) ==
    /\ pc' = "Aborted"
    /\ aborted_at' = pc
    /\ ret' = Raise(e)

\* if not original_query: log, return
EmptyQuery ==
    /\ pc = "Start"
    /\ Falsy(original_query)
    /\ pc' = "Aborted"
    /\ aborted_at' = pc
    /\ ret' = Return(None)
    /\ UNCHANGED <<variant, original_query, sanitized_query, additional_queries,
                   queries, loop_index, search_results, unique_search_results, text,
                   links, overview, named_entities, calls, search_log,
                   expand_response, overview_outcome,
                   stage_log>>
    /\ UNCHANGED fn_vars

\* sanitized_query = sanitize_initial_query(original_query): tools.ask
\* answers, or raises and the exception is logged and re-raised.
Sanitize ==
    /\ pc = "Start"
    /\ ~Falsy(original_query)
    /\ \E outcome \in {Raised} \cup {Answer(a) : a \in SanitizeAnswers} :
        /\ calls' = Append(calls, Call("sanitize", ~outcome.raised))
        /\ IF outcome.raised
           THEN Abort("AskError") /\ UNCHANGED <<sanitized_query, stage_log>>
           ELSE /\ sanitized_query' = outcome.answer
                /\ stage_log' = Append(stage_log, Stage("sanitize", original_query, outcome.answer))
                /\ pc' = "Sanitized"
                /\ UNCHANGED <<aborted_at, ret>>
    /\ UNCHANGED <<variant, original_query, additional_queries, queries, loop_index,
                   search_results, unique_search_results, text, links, overview,
                   named_entities, search_log, expand_response,
                   overview_outcome>>
    /\ UNCHANGED fn_vars

\* additional_queries = expand_query(sanitized_query), then
\* queries = [sanitized_query] + additional_queries. tools.ask raises, or
\* answers a text that expand_query parses and checks.
Expand ==
    /\ pc = "Sanitized"
    /\ \/ /\ calls' = Append(calls, Call("expand", FALSE))
          /\ Abort("AskError")
          /\ UNCHANGED <<additional_queries, queries, expand_response, stage_log>>
       \/ \E response \in ExpandResponses :
            LET res == expand_query(response)
            IN  /\ expand_response' = response
                /\ calls' = Append(calls, Call("expand", TRUE))
                /\ IF res.exc # ""
                   THEN Abort(res.exc) /\ UNCHANGED <<additional_queries, queries, stage_log>>
                   ELSE /\ additional_queries' = res.val
                        /\ queries' = CombineQueries(original_query, sanitized_query, res.val)
                        /\ pc' = "Expanded"
                        /\ stage_log' = Append(stage_log, Stage("expand", sanitized_query, res.val))
                        /\ UNCHANGED <<aborted_at, ret>>
    /\ UNCHANGED <<variant, original_query, sanitized_query, loop_index,
                   search_results, unique_search_results, text, links, overview,
                   named_entities, search_log, overview_outcome>>
    /\ UNCHANGED fn_vars

\* One iteration of the loop of perform_searches: webkit.search.google
\* returns hits, which extend the list, or raises, which is logged and
\* passed over. After the last query perform_searches returns the list.
SearchOne ==
    /\ pc = "Expanded"
    /\ loop_index <= Len(queries)
    /\ \E outcome \in {Raised} \cup {Answer(a) : a \in ProviderAnswers} :
        LET q == queries[loop_index]
        IN  /\ calls' = Append(calls, Call("search", ~outcome.raised))
            /\ IF outcome.raised
               THEN /\ search_results' = OnSearchError(search_results)
                    /\ search_log' = Append(search_log, [query |-> q, ok |-> FALSE, hits |-> <<>>])
               ELSE /\ search_results' = Extend(search_results, outcome.answer)
                    /\ search_log' = Append(search_log, [query |-> q, ok |-> TRUE, hits |-> outcome.answer])
    /\ loop_index' = loop_index + 1
    /\ pc' = IF loop_index = Len(queries) THEN "Retrieved" ELSE "Expanded"
    /\ stage_log' = IF loop_index = Len(queries)
                    THEN Append(stage_log, Stage("retrieve", queries, search_results'))
                    ELSE stage_log
    /\ UNCHANGED <<variant, original_query, aborted_at, ret, sanitized_query,
                   additional_queries, queries, unique_search_results, text, links,
                   overview, named_entities, expand_response, overview_outcome>>
    /\ UNCHANGED fn_vars

\* ai_search.py only: sys.exit() right after perform_searches.
SysExit ==
    /\ variant = "ai_search"
    /\ pc = "Retrieved"
    /\ Abort("SystemExit")
    /\ UNCHANGED <<variant, original_query, sanitized_query, additional_queries,
                   queries, loop_index, search_results, unique_search_results, text,
                   links, overview, named_entities, calls, search_log,
                   expand_response, overview_outcome,
                   stage_log>>
    /\ UNCHANGED fn_vars

\* unique_search_results = remove_duplicates_and_unused_keys(search_results)
Consolidate ==
    /\ variant = "ai_overview"
    /\ pc = "Retrieved"
    /\ unique_search_results' \in remove_duplicates_and_unused_keys(search_results)
    /\ pc' = "Consolidated"
    /\ stage_log' = Append(stage_log, Stage("consolidate", search_results, unique_search_results'))
    /\ UNCHANGED <<variant, original_query, aborted_at, ret, sanitized_query,
                   additional_queries, queries, loop_index, search_results, text,
                   links, overview, named_entities, calls, search_log,
                   expand_response, overview_outcome>>
    /\ UNCHANGED fn_vars

\* text, links = extract_text_and_links(unique_search_results)
ExtractEvidence ==
    /\ pc = "Consolidated"
    /\ \E tl \in extract_text_and_links(unique_search_results) :
        /\ text' = tl[1]
        /\ links' = tl[2]
        /\ stage_log' = Append(stage_log, Stage("extract", unique_search_results, tl))
    /\ pc' = "ExtractedEvidence"
    /\ UNCHANGED <<variant, original_query, aborted_at, ret, sanitized_query,
                   additional_queries, queries, loop_index, search_results,
                   unique_search_results, overview, named_entities, calls,
                   search_log, expand_response, overview_outcome>>
    /\ UNCHANGED fn_vars

\* overview = generate_overview(text, queries)
Synthesize ==
    /\ pc = "ExtractedEvidence"
    /\ \E outcome \in {Raised} \cup {Answer(a) : a \in OverviewAnswers} :
        /\ calls' = Append(calls, Call("overview", ~outcome.raised))
        /\ overview' = generate_overview(outcome)
        /\ overview_outcome' = outcome
        /\ stage_log' = Append(stage_log,
               Stage("synthesize", <<text, OverviewQueries(sanitized_query, queries)>>,
                     generate_overview(outcome)))
    /\ pc' = "Synthesized"
    /\ UNCHANGED <<variant, original_query, aborted_at, ret, sanitized_query,
                   additional_queries, queries, loop_index, search_results,
                   unique_search_results, text, links, named_entities, search_log,
                   expand_response>>
    /\ UNCHANGED fn_vars

\* named_entities = recognise_named_entities(overview)
Annotate ==
    /\ pc = "Synthesized"
    /\ \E outcome \in {Raised} \cup {Answer(a) : a \in EntityAnswers} :
        LET res == recognise_named_entities(overview, outcome)
        IN  /\ calls' = IF res.called THEN Append(calls, Call("ner", ~outcome.raised))
                        ELSE calls
            /\ IF res.exc # ""
               THEN Abort(res.exc) /\ UNCHANGED <<named_entities, stage_log>>
               ELSE /\ named_entities' = res.val
                    /\ stage_log' = Append(stage_log, Stage("annotate", overview, res.val))
                    /\ pc' = "Annotated"
                    /\ UNCHANGED <<aborted_at, ret>>
    /\ UNCHANGED <<variant, original_query, sanitized_query, additional_queries,
                   queries, loop_index, search_results, unique_search_results, text,
                   links, overview, search_log, expand_response,
                   overview_outcome>>
    /\ UNCHANGED fn_vars

\* data = {...}; return data (searched_on, a timestamp, is left out)
Assemble ==
    /\ pc = "Annotated"
    /\ ret' = Return(Some([overview |-> overview, links |-> links,
                           named_entities |-> named_entities]))
    /\ pc' = "Done"
    /\ stage_log' = Append(stage_log,
           Stage("assemble", <<overview, links, named_entities>>,
                 [overview |-> overview, links |-> links,
                  named_entities |-> named_entities]))
    /\ UNCHANGED <<variant, original_query, aborted_at, sanitized_query,
                   additional_queries, queries, loop_index, search_results,
                   unique_search_results, text, links, overview, named_entities,
                   calls, search_log, expand_response, overview_outcome>>
    /\ UNCHANGED fn_vars

Next ==
    \/ EmptyQuery
    \/ Sanitize
    \/ Expand
    \/ SearchOne
    \/ SysExit
    \/ Consolidate
    \/ ExtractEvidence
    \/ Synthesize
    \/ Annotate
    \/ Assemble

Spec == Init /\ [][Next]_vars

----------------------------------------------------------------------------
(* The deduplication functions on their own: the argument is drawn from    *)
(* bounded lists of records, and the function is applied once and again.   *)

d4 == [title |-> <<"A">>, href |-> <<"x">>, snippet |-> <<"s">>]
d5 == [title |-> <<"A">>, href |-> <<"x">>]
d6 == [href |-> <<"z">>, y |-> <<"1">>, body |-> <<"b">>]

DedupPool == {r1, r2, r3, d4, d5, d6}

DedupOf(v, rs) ==
    IF v = "ai_overview" THEN remove_duplicates_and_unused_keys(rs)
    ELSE _remove_duplicates_and_unused_keys(rs)

DedupInit ==
    /\ variant = "ai_overview"
    /\ original_query = ""
    /\ pc = "Start"
    /\ aborted_at = ""
    /\ ret = Pending
    /\ sanitized_query = ""
    /\ additional_queries = <<>>
    /\ queries = <<>>
    /\ loop_index = 1
    /\ search_results = <<>>
    /\ unique_search_results = <<>>
    /\ text = <<>>
    /\ links = <<>>
    /\ overview = None
    /\ named_entities = None
    /\ calls = <<>>
    /\ search_log = <<>>
    /\ expand_response = NotJson
    /\ overview_outcome = Raised
    /\ stage_log = <<>>
    /\ fn_pc = "in"
    /\ fn_variant \in Variants
    /\ fn_in \in SeqsUpTo(DedupPool, MaxLen)
    /\ fn_out = <<>>
    /\ fn_out2 = <<>>

\* out = dedup(R)
Dedup ==
    /\ fn_pc = "in"
    /\ fn_out' \in DedupOf(fn_variant, fn_in)
    /\ fn_pc' = "once"
    /\ UNCHANGED <<fn_variant, fn_in, fn_out2>>
    /\ UNCHANGED pipeline_vars

\* out2 = dedup(out)
DedupAgain ==
    /\ fn_pc = "once"
    /\ fn_out2' \in DedupOf(fn_variant, fn_out)
    /\ fn_pc' = "twice"
    /\ UNCHANGED <<fn_variant, fn_in, fn_out>>
    /\ UNCHANGED pipeline_vars

DedupNext ==
    \/ Dedup
    \/ DedupAgain

SpecDedup == DedupInit /\ [][DedupNext]_vars

----------------------------------------------------------------------------
(* Vocabulary of the properties *)

Stages == <<"Start", "Sanitized", "Expanded", "Retrieved", "Consolidated",
            "ExtractedEvidence", "Synthesized", "Annotated", "Done">>

\* Where ai_search is, or was when it stopped.
Position == IF pc = "Aborted" THEN aborted_at ELSE pc

Rank(p) == CHOOSE n \in DOMAIN Stages : Stages[n] = p

\* perform_searches has returned.
PastRetrieval == Rank(Position) >= Rank("Retrieved")

Issued(op, ok) == \E k \in DOMAIN calls : calls[k] = Call(op, ok)

CallsOf(op) == {k \in DOMAIN calls : calls[k].op = op}

\* The response is a JSON list whose elements are all strings.
WellFormed(response) ==
    /\ response.json
    /\ response.val.t = "list"
    /\ \A k \in DOMAIN response.val.items : response.val.items[k].t = "str"

\* The strings of a well-formed response, in order.
ListOf(response) == [k \in DOMAIN response.val.items |-> response.val.items[k].s]

\* The hits of the calls of a log that succeeded, in the order of the calls.
HitsOf(log) == Flatten([k \in DOMAIN log |-> IF log[k].ok THEN log[k].hits ELSE <<>>])

AllSearchesFailed ==
    /\ PastRetrieval
    /\ \A k \in DOMAIN search_log : ~search_log[k].ok

\* The session result ai_search returned.
Data == Unwrap(ret.val)

----------------------------------------------------------------------------
(* C1 *)

\* C1: ai_search called with an empty query returns None, and on that path
\* no Prompting call and no SearchProvider call is issued and no stage runs.
C1_EmptyQueryRunsNothing ==
    original_query = "" =>
        /\ calls = <<>>
        /\ search_log = <<>>
        /\ pc \in {"Start", "Aborted"}
        /\ pc = "Start" => ret = Pending
        /\ pc = "Aborted" => ret = Return(None) /\ aborted_at = "Start"

C1_Witness ==
    /\ original_query = ""
    /\ pc = "Aborted"
    /\ ret.kind = "return"

----------------------------------------------------------------------------
(* C2 *)

\* C2: once sanitize and expand have returned, ai_search of ai_overview.py
\* ends in Done: it stops without a result only at Start or at Sanitized.
C2_AbortedOnlyBeforeRetrieval ==
    (variant = "ai_overview" /\ pc = "Aborted") => aborted_at \in {"Start", "Sanitized"}

----------------------------------------------------------------------------
(* C3 *)

----------------------------------------------------------------------------
(* C4 *)

\* C4: a response to the expansion prompt that is not a JSON list of
\* strings makes expand_query raise and yield no list, ai_search stops
\* there and no SearchProvider call is issued; a failing sanitize stops it
\* before any search too; every SearchProvider call is preceded by a
\* successful sanitize and then a successful expand.
C4_MalformedExpansionAborts ==
    /\ (Issued("expand", TRUE) /\ ~WellFormed(expand_response)) =>
        /\ pc = "Aborted"
        /\ aborted_at = "Sanitized"
        /\ ret.kind = "raise"
        /\ additional_queries = <<>>
        /\ queries = <<>>
        /\ search_log = <<>>
        /\ CallsOf("search") = {}
    /\ (Issued("sanitize", FALSE) \/ Issued("expand", FALSE)) =>
        /\ pc = "Aborted"
        /\ ret.kind = "raise"
        /\ search_log = <<>>
        /\ CallsOf("search") = {}
    /\ \A k \in CallsOf("search") :
        /\ WellFormed(expand_response)
        /\ \E a \in 1..k, b \in 1..k :
            /\ a < b
            /\ calls[a] = Call("sanitize", TRUE)
            /\ calls[b] = Call("expand", TRUE)

C4_Witness ==
    /\ pc = "Aborted"
    /\ ret = Raise("ValueError")
    /\ expand_response.val.t = "list"
    /\ Len(expand_response.val.items) = 2
    /\ expand_response.val.items[1].t = "str"

----------------------------------------------------------------------------
(* C5 *)

\* C5: the query list passed to perform_searches has length 1 + |E|, where E
\* is the list expand_query returned; its first element is the sanitized
\* query and the rest is E in order; the queries searched are its elements.
C5_QuerySetAnchoring ==
    (Issued("expand", TRUE) /\ WellFormed(expand_response)) =>
        /\ additional_queries = ListOf(expand_response)
        /\ Len(queries) = 1 + Len(additional_queries)
        /\ queries[1] = sanitized_query
        /\ \A k \in DOMAIN additional_queries : queries[k + 1] = additional_queries[k]
        /\ \A k \in DOMAIN search_log : search_log[k].query = queries[k]

C5_Witness ==
    /\ pc = "Retrieved"
    /\ original_query = "q0"
    /\ sanitized_query = "q1"
    /\ additional_queries = <<"q0", "q1">>
    /\ Len(search_log) = 3

----------------------------------------------------------------------------
(* C8 *)

----------------------------------------------------------------------------
(* C9 *)

\* C9: when the named-entity model call fails, recognise_named_entities
\* returns an empty list, which is the named_entities of the result.
C9_EntityFailureYieldsEmptyList ==
    Issued("ner", FALSE) =>
        /\ pc # "Aborted"
        /\ pc \in {"Annotated", "Done"} => named_entities = Some(<<>>)
        /\ pc = "Done" => Data.named_entities = Some(<<>>)

----------------------------------------------------------------------------
(* C10 *)

\* C10: when the overview model call fails, generate_overview returns None
\* and ai_search of ai_overview.py goes on to return a result carrying that
\* empty overview and the links extracted.
C10_OverviewFailureDegrades ==
    (variant = "ai_overview" /\ Issued("overview", FALSE)) =>
        /\ overview = None
        /\ pc # "Aborted"
        /\ pc = "Done" => Data.overview = None /\ Data.links = links

----------------------------------------------------------------------------
(* C6, C7 *)

\* A record without its body field.
Bodyless(r) == [k \in DOMAIN r \ {"body"} |-> r[k]]

C7_DedupIdempotent ==
    fn_pc = "twice" => Range(fn_out2) = Range(fn_out)

C7_Witness ==
    /\ fn_pc = "twice"
    /\ fn_in = <<r1, d4, r3>>
    /\ Len(fn_out) = 2
    /\ Len(fn_out2) = 2

----------------------------------------------------------------------------
(* expand_query on its own: the query and the model's response are drawn   *)
(* from bounded sets, the response being a list that can be longer than    *)
(* the number of queries asked for.                                        *)

\* ai_search is not running.
PipelineIdle ==
    /\ variant = "ai_overview"
    /\ original_query = ""
    /\ pc = "Start"
    /\ aborted_at = ""
    /\ ret = Pending
    /\ sanitized_query = ""
    /\ additional_queries = <<>>
    /\ queries = <<>>
    /\ loop_index = 1
    /\ search_results = <<>>
    /\ unique_search_results = <<>>
    /\ text = <<>>
    /\ links = <<>>
    /\ overview = None
    /\ named_entities = None
    /\ calls = <<>>
    /\ search_log = <<>>
    /\ expand_response = NotJson
    /\ overview_outcome = Raised
    /\ stage_log = <<>>

LongExpandResponses ==
    {NotJson, Json(JStr("not a list"))}
    \cup {Json(JList(items)) : items \in SeqsUpTo(ExpandItems, MaxAnswer)}

ExpandInit ==
    /\ PipelineIdle
    /\ fn_pc = "in"
    /\ fn_variant \in Variants
    /\ fn_in \in SanitizeAnswers \X LongExpandResponses
    /\ fn_out = <<>>
    /\ fn_out2 = <<>>

\* out = expand_query(query), the model answering the response
ExpandQuery ==
    /\ fn_pc = "in"
    /\ fn_out' = expand_query(fn_in[2])
    /\ fn_pc' = "done"
    /\ UNCHANGED <<fn_variant, fn_in, fn_out2>>
    /\ UNCHANGED pipeline_vars

ExpandNext ==
    \/ ExpandQuery

SpecExpand == ExpandInit /\ [][ExpandNext]_vars

----------------------------------------------------------------------------
(* C11 *)

\* C11, as claimed: whenever expand_query(q) returns a list, the list has at
\* most number_of_additional_queries elements and none of them is q.
C11_AtMostNAndNeverQ ==
    (fn_pc = "done" /\ fn_out.exc = "") =>
        /\ Len(fn_out.val) <= number_of_additional_queries
        /\ \A k \in DOMAIN fn_out.val : fn_out.val[k] # fn_in[1]

\* C11, amended: expand_query(q) returns a list exactly when the model's
\* response is a JSON list of strings, and the list is then that list, in
\* order, neither cut to number_of_additional_queries nor cleared of q.
C11_ReturnsTheModelsList ==
    fn_pc = "done" =>
        /\ WellFormed(fn_in[2]) => fn_out.exc = "" /\ fn_out.val = ListOf(fn_in[2])
        /\ ~WellFormed(fn_in[2]) => fn_out.exc # "" /\ fn_out.val = <<>>

C11_Witness ==
    /\ fn_pc = "done"
    /\ fn_out.exc = ""
    /\ Len(fn_out.val) = number_of_additional_queries + 1
    /\ fn_in[1] \in Range(fn_out.val)

----------------------------------------------------------------------------
(* extract_text_and_links on its own: the argument is drawn from bounded   *)
(* lists of consolidated records, some with padded or missing fields.      *)

x1 == [title |-> <<" ", "A">>, href |-> <<"x", " ">>, snippet |-> <<"s">>]
x2 == [title |-> <<"A">>, href |-> <<"x">>, snippet |-> <<"s">>]
x3 == [title |-> <<"B">>, href |-> <<"x">>, snippet |-> <<"s">>]
x4 == [title |-> <<"A">>]
x5 == [href |-> <<"y">>, snippet |-> <<"t", "\n">>]

ExtractPool == {x1, x2, x3, x4, x5}

ExtractOf(v, rs) ==
    IF v = "ai_overview" THEN extract_text_and_links(rs)
    ELSE _extract_text_and_links(rs)

ExtractInit ==
    /\ PipelineIdle
    /\ fn_pc = "in"
    /\ fn_variant \in Variants
    /\ fn_in \in SeqsUpTo(ExtractPool, MaxLen)
    /\ fn_out = <<>>
    /\ fn_out2 = <<>>

\* text, links = extract_text_and_links(results)
Extract ==
    /\ fn_pc = "in"
    /\ fn_out' \in ExtractOf(fn_variant, fn_in)
    /\ fn_pc' = "done"
    /\ UNCHANGED <<fn_variant, fn_in, fn_out2>>
    /\ UNCHANGED pipeline_vars

ExtractNext ==
    \/ Extract

SpecExtract == ExtractInit /\ [][ExtractNext]_vars

\* No element of a list occurs twice in it.
NoRepeat(l) == \A a, b \in DOMAIN l : l[a] = l[b] => a = b

\* The href of a record as the claims have it: the empty string when missing.
HrefOrEmpty(r) == IF "href" \in DOMAIN r THEN r["href"] ELSE <<>>

\* A field of a record as the claims have it: the empty string when missing.
FieldOrEmpty(r, key) == IF key \in DOMAIN r THEN r[key] ELSE <<>>

----------------------------------------------------------------------------
(* C12 *)

\* C12, as claimed: the links extract_text_and_links returns hold no string
\* twice and are, as a set, the href values of the input records, a record
\* without href contributing the empty string.
C12_LinksAreTheHrefs ==
    fn_pc = "done" =>
        /\ NoRepeat(fn_out[2])
        /\ fn_variant = "ai_overview" =>
            Range(fn_out[2]) = {HrefOrEmpty(r) : r \in Range(fn_in)}
        /\ fn_variant = "ai_search" =>
            Range(fn_out[2]) = {Some(HrefOrEmpty(r)) : r \in Range(fn_in)}

\* C12, amended: the links hold no value twice; those of
\* extract_text_and_links (ai_overview.py) are, as a set, the href values of
\* the input records stripped of leading and trailing whitespace, a record
\* without href contributing the empty string, which is not filtered out;
\* those of _extract_text_and_links (ai_search.py) are the href values as
\* they are, a record without href contributing None.
C12_LinksAreTheStrippedHrefs ==
    fn_pc = "done" =>
        /\ NoRepeat(fn_out[2])
        /\ fn_variant = "ai_overview" =>
            Range(fn_out[2]) = {Strip(HrefOrEmpty(r)) : r \in Range(fn_in)}
        /\ fn_variant = "ai_search" =>
            Range(fn_out[2]) =
                {IF "href" \in DOMAIN r THEN Some(r["href"]) ELSE None : r \in Range(fn_in)}

C12_Witness ==
    /\ fn_pc = "done"
    /\ fn_variant = "ai_overview"
    /\ fn_in = <<x1, x2, x4>>
    /\ Range(fn_out[2]) = {<<"x">>, <<>>}
    /\ Len(fn_out[2]) = 2

----------------------------------------------------------------------------
(* C14 *)

\* The text of the claims: one line per record, joined by newlines.
LinesJoined(rs, Line(_)) == Join([n \in DOMAIN rs |-> Line(rs[n])], <<"\n">>)

\* C14, as claimed: the text is one line per input record, in input order,
\* each line "{title}: {snippet}" of the record, a missing field being the
\* empty string; the text of the empty list is the empty string.
C14_TextIsTitleColonSnippet ==
    fn_pc = "done" =>
        LET Line(r) == FieldOrEmpty(r, "title") \o <<":", " ">> \o FieldOrEmpty(r, "snippet")
        IN  fn_out[1] = LinesJoined(fn_in, Line)

\* C14, amended: the text is the newline-join, in input order, of one entry
\* per input record, the empty string for the empty list. In
\* extract_text_and_links (ai_overview.py) the entry is "{title}: {snippet}"
\* of the title and snippet stripped of leading and trailing whitespace, a
\* missing field being the empty string; in _extract_text_and_links
\* (ai_search.py) it is "{title} {snippet}" of the fields as they are, a
\* missing field being rendered as None.
C14_TextIsStrippedTitleColonSnippet ==
    fn_pc = "done" =>
        LET Line(r) ==
                Strip(FieldOrEmpty(r, "title")) \o <<":", " ">>
                    \o Strip(FieldOrEmpty(r, "snippet"))
            Missing == <<"N", "o", "n", "e">>
            OldLine(r) ==
                (IF "title" \in DOMAIN r THEN r["title"] ELSE Missing) \o <<" ">>
                    \o (IF "snippet" \in DOMAIN r THEN r["snippet"] ELSE Missing)
        IN  /\ fn_variant = "ai_overview" => fn_out[1] = LinesJoined(fn_in, Line)
            /\ fn_variant = "ai_search" => fn_out[1] = LinesJoined(fn_in, OldLine)
            /\ fn_in = <<>> => fn_out[1] = <<>>

C14_Witness ==
    /\ fn_pc = "done"
    /\ fn_variant = "ai_overview"
    /\ fn_in = <<x1, x4, x5>>
    /\ fn_out[1] = <<"A", ":", " ", "s", "\n", "A", ":", " ", "\n", ":", " ", "t">>

----------------------------------------------------------------------------
(* _remove_irrelevant_results and search_results_relevance (identical in   *)
(* both source files), on their own.                                       *)

\* The substrings of "snippet": `k in ("snippet")` tests a key against the
\* string "snippet", not against a one-element tuple.
SubstringsOfSnippet ==
    {"", "s", "n", "i", "p", "e", "t", "sn", "ni", "ip", "pp", "pe", "et",
     "sni", "nip", "ipp", "ppe", "pet", "snip", "nipp", "ippe", "ppet",
     "snipp", "nippe", "ippet", "snippe", "nippet", "snippet"}

\* {k: v for k, v in r.items() if k in ("snippet")}
SnippetOnly(r) == [k \in {x \in DOMAIN r : x \in SubstringsOfSnippet} |-> r[k]]

\* search_results_relevance: tools.ask is not guarded, so its failure leaves
\* the function; otherwise the model's text is returned as it is.
search_results_relevance(query, snippets, outcome) ==
    IF outcome.raised THEN [exc |-> "AskError", val |-> ""]
    ELSE [exc |-> "", val |-> outcome.answer]

\* _remove_irrelevant_results: the snippets are scored, the loop that would
\* keep the relevant results is commented out, and the list returned is the
\* one initialised empty.
_remove_irrelevant_results(qs, rs, outcome) ==
    LET _search_results == [n \in DOMAIN rs |-> SnippetOnly(rs[n])]
        relevances == search_results_relevance(qs, _search_results, outcome)
        relevant_search_results == <<>>
    IN  [exc |-> relevances.exc,
         scored |-> <<qs, _search_results>>,
         relevances |-> relevances.val,
         val |-> relevant_search_results]

RelevanceAnswers == {"[0.0, 100.0]", "n/a"}

RelevancePool == {r3, d4, d5}

RelevanceQueries == {<<"q0">>, <<"q1", "q0">>}

RelevanceInit ==
    /\ PipelineIdle
    /\ fn_pc = "in"
    /\ fn_variant \in Variants
    /\ fn_in \in RelevanceQueries \X SeqsUpTo(RelevancePool, MaxLen)
    /\ fn_out = <<>>
    /\ fn_out2 = <<>>

\* out = _remove_irrelevant_results(queries, L)
RemoveIrrelevant ==
    /\ fn_pc = "in"
    /\ \E outcome \in {Raised} \cup {Answer(a) : a \in RelevanceAnswers} :
        fn_out' = _remove_irrelevant_results(fn_in[1], fn_in[2], outcome)
    /\ fn_pc' = "done"
    /\ UNCHANGED <<fn_variant, fn_in, fn_out2>>
    /\ UNCHANGED pipeline_vars

RelevanceNext ==
    \/ RemoveIrrelevant

SpecRelevance == RelevanceInit /\ [][RelevanceNext]_vars

----------------------------------------------------------------------------
(* C13 *)

\* C13: _remove_irrelevant_results(queries, L) issues the relevance-scoring
\* call on the queries and the snippets of L and, when that call answers,
\* returns L unchanged: the same records, none dropped.
C13_RelevanceFilterIsPassthrough ==
    (fn_pc = "done" /\ fn_out.exc = "") =>
        /\ fn_out.scored[1] = fn_in[1]
        /\ Len(fn_out.scored[2]) = Len(fn_in[2])
        /\ fn_out.val = fn_in[2]

----------------------------------------------------------------------------
(* C15 *)

StageOrder == <<"sanitize", "expand", "retrieve", "consolidate", "extract",
                "synthesize", "annotate", "assemble">>

\* The collaborator calls of a run that goes through every stage, n being
\* the number of queries searched.
CallOrder(n) ==
    <<"sanitize", "expand">> \o [k \in 1..n |-> "search"] \o <<"overview", "ner">>

\* C15: the stages of ai_search run at most once each and in the order
\* sanitize, expand, retrieve, consolidate, extract, synthesize, annotate,
\* assemble; an invocation that returns a result has run each exactly once,
\* each on the output of the stage before it: the synthesizer on the extracted
\* text and the whole working query list, the annotator on the overview alone.
C15_StagesInOrderOnce ==
    /\ Len(stage_log) <= Len(StageOrder)
    /\ \A k \in DOMAIN stage_log : stage_log[k].stage = StageOrder[k]
    /\ pc = "Done" =>
        /\ Len(stage_log) = Len(StageOrder)
        /\ [k \in DOMAIN calls |-> calls[k].op] = CallOrder(Len(queries))
        /\ stage_log[1].input = original_query
        /\ stage_log[2].input = stage_log[1].output
        /\ stage_log[3].input = <<stage_log[1].output>> \o stage_log[2].output
        /\ stage_log[4].input = stage_log[3].output
        /\ stage_log[5].input = stage_log[4].output
        /\ stage_log[6].input = <<stage_log[5].output[1], stage_log[3].input>>
        /\ stage_log[7].input = stage_log[6].output
        /\ stage_log[8].input =
            <<stage_log[6].output, stage_log[5].output[2], stage_log[7].output>>
        /\ Data = stage_log[8].output
        /\ Data.overview = stage_log[6].output
        /\ Data.links = stage_log[5].output[2]
        /\ Data.named_entities = stage_log[7].output

C15_Witness ==
    /\ pc = "Done"
    /\ Len(queries) = 3
    /\ Len(unique_search_results) = 2
    /\ stage_log[6].input = <<text, queries>>
    /\ stage_log[7].input = Some("ov")

====
